---- MODULE Spec2Model ----
(***************************************************************************)
(* A model of python_scripts/plot_resampler.py: the parser of the          *)
(* resampler log (parse_file), the fixed normalization, the two plotting   *)
(* routines and the main sequence that calls them.                         *)
(*                                                                         *)
(* A line of the file is a sequence of one-character strings, so that      *)
(* str.strip, str.startswith, str.split and int() are computed as Python   *)
(* computes them.  A float64 is a record (sign, exponent, 53-bit mantissa  *)
(* in two halves), and true division and multiplication round to nearest,  *)
(* ties to even, as IEEE-754 does.                                         *)
(***************************************************************************)
EXTENDS Integers, Sequences, FiniteSets, TLC

VARIABLES
    fileExists,   \* whether open(FILENAME) finds the file
    file,         \* the content of the file (a descriptor, see FileLine)
    pc,           \* the position of the script
    idx,          \* 1-based number of the next line the for loop reads
    data_in, data_mid, data_out,        \* the lists parse_file appends to
    s_in_raw, s_mid_raw, s_out_raw,     \* the arrays parse_file returns
    s_in, s_mid, s_out,                 \* the normalized arrays
    stdout,       \* what print() wrote
    calls,        \* the steps of the main block performed so far, in order
    timeArgs,     \* the arguments plot_time_domain received
    freqArgs,     \* the arguments plot_frequency_domain received
    fft,          \* stream -> what get_fft_db returned for it
    ref_level,    \* <<v>> once np.max(mag_in) returned v
    plotted,      \* stream -> the y data of the frequency figure
    error,        \* the exception that ended the run, or "none"
    exitStatus    \* the exit status of the process; -1 while it runs

vars == << fileExists, file, pc, idx, data_in, data_mid, data_out,
           s_in_raw, s_mid_raw, s_out_raw, s_in, s_mid, s_out, stdout, calls,
           timeArgs, freqArgs, fft, ref_level, plotted, error, exitStatus >>

-----------------------------------------------------------------------------
(* Bounds of the model *)

\* longest file made of arbitrary lines of LineSet
MaxLines == 2
\* longest block of IN:, MID: or OUT: lines of a block file
MaxRun == 4
\* number of FFT bins whose level is chosen freely (longer spectra repeat)
MaxBins == 2

-----------------------------------------------------------------------------
(* Configuration *)

FILENAME == "resampler_output.txt"
FS_IN == 9000000
L == 2
M == 3
FS_MID == FS_IN * L
FS_OUT == FS_MID \div M
NORM_FACTOR == 30000
\* the slice bounds of the call of plot_time_domain
TIME_LEN_IN == 200
TIME_LEN_MID == 400
TIME_LEN_OUT == 150

Min(a, b) == IF a < b THEN a ELSE b

-----------------------------------------------------------------------------
(* Strings: str.strip(), str.startswith(), str.split(), int() *)

\* the ASCII whitespace str.strip() and str.split() remove
IsSpace(c) == c \in {" ", "\t", "\n", "\r", "\f"}

RECURSIVE LStrip(_)
LStrip(s) == IF s # <<>> /\ IsSpace(Head(s)) THEN LStrip(Tail(s)) ELSE s

RECURSIVE RStrip(_)
RStrip(s) ==
    IF s # <<>> /\ IsSpace(s[Len(s)]) THEN RStrip(SubSeq(s, 1, Len(s) - 1)) ELSE s

Strip(s) == RStrip(LStrip(s))

StartsWith(s, p) == Len(s) >= Len(p) /\ SubSeq(s, 1, Len(p)) = p

\* str.split() with no argument: the maximal runs of non-whitespace characters
RECURSIVE SplitFrom(_, _, _)
SplitFrom(s, cur, acc) ==
    IF s = <<>> THEN (IF cur = <<>> THEN acc ELSE Append(acc, cur))
    ELSE IF IsSpace(Head(s))
         THEN SplitFrom(Tail(s), <<>>, IF cur = <<>> THEN acc ELSE Append(acc, cur))
         ELSE SplitFrom(Tail(s), Append(cur, Head(s)), acc)

Split(s) == SplitFrom(s, <<>>, <<>>)

Digits == <<"0", "1", "2", "3", "4", "5", "6", "7", "8", "9">>
IsDigit(c) == \E d \in 1..10 : Digits[d] = c
DigitVal(c) == (CHOOSE d \in 1..10 : Digits[d] = c) - 1

\* the digits of an int() literal after its sign: digits, single underscores
\* allowed between two digits
IsIntBody(b) ==
    /\ b # <<>>
    /\ IsDigit(b[1])
    /\ IsDigit(b[Len(b)])
    /\ \A i \in 1..Len(b) : IsDigit(b[i]) \/ b[i] = "_"
    /\ \A i \in 1..(Len(b) - 1) : ~(b[i] = "_" /\ b[i + 1] = "_")

RECURSIVE BodyVal(_, _)
BodyVal(b, acc) ==
    IF b = <<>> THEN acc
    ELSE IF Head(b) = "_" THEN BodyVal(Tail(b), acc)
         ELSE BodyVal(Tail(b), acc * 10 + DigitVal(Head(b)))

HasSign(t) == t # <<>> /\ Head(t) \in {"+", "-"}
IntBody(t) == IF HasSign(t) THEN Tail(t) ELSE t

\* int(t) returns a value ...
IsIntLiteral(t) == IsIntBody(IntBody(t))
\* ... which is this one; otherwise int(t) raises ValueError
ParseInt(t) ==
    IF Head(t) = "-" THEN 0 - BodyVal(IntBody(t), 0) ELSE BodyVal(IntBody(t), 0)

\* line.split()[-1]
LastToken(line) == Split(line)[Len(Split(line))]

P_IN == <<"I", "N", ":">>
P_MID == <<"M", "I", "D", ":">>
P_OUT == <<"O", "U", "T", ":">>

-----------------------------------------------------------------------------
(* float64.  A finite nonzero double is neg, exp, hi, lo with value          *)
(* (-1)^neg * (hi * 2^26 + lo) * 2^(exp - 52) and 2^26 <= hi < 2^27 (a       *)
(* normalized 53-bit mantissa); zero has hi = lo = 0.  The samples of the    *)
(* log are far from the subnormal and the overflow range.                    *)

Abs(x) == IF x < 0 THEN 0 - x ELSE x

FZero == [neg |-> FALSE, exp |-> 0, hi |-> 0, lo |-> 0]

\* floor(log2(a)) for a >= 1
RECURSIVE Log2(_)
Log2(a) == IF a < 2 THEN 0 ELSE 1 + Log2(a \div 2)

\* an int64 sample converted to float64 (exact below 2^53)
FromInt(x) ==
    IF x = 0 THEN FZero
    ELSE LET a == Abs(x)
             e == Log2(a)
         IN  [neg |-> x < 0, exp |-> e,
              hi |-> IF e <= 26 THEN a * 2^(26 - e) ELSE a \div 2^(e - 26),
              lo |-> IF e <= 26 THEN 0 ELSE (a % 2^(e - 26)) * 2^(52 - e)]

\* round to nearest, ties to even: the 53-bit mantissa hi:lo, then the next
\* bit rnd and whether anything nonzero follows it
RoundNearestEven(neg, exp, hi, lo, rnd, sticky) ==
    IF ~(rnd = 1 /\ (sticky \/ lo % 2 = 1))
    THEN [neg |-> neg, exp |-> exp, hi |-> hi, lo |-> lo]
    ELSE IF lo + 1 < 2^26
         THEN [neg |-> neg, exp |-> exp, hi |-> hi, lo |-> lo + 1]
         ELSE IF hi + 1 < 2^27
              THEN [neg |-> neg, exp |-> exp, hi |-> hi + 1, lo |-> 0]
              ELSE [neg |-> neg, exp |-> exp + 1, hi |-> 2^26, lo |-> 0]

\* n more bits of the quotient r / d (r < d), appended to q
RECURSIVE DivBits(_, _, _, _)
DivBits(r, d, n, q) ==
    IF n = 0 THEN [q |-> q, r |-> r]
    ELSE IF 2 * r >= d THEN DivBits(2 * r - d, d, n - 1, 2 * q + 1)
         ELSE DivBits(2 * r, d, n - 1, 2 * q)

\* the correctly rounded quotient of the integers x / d, d > 0: what the
\* float64 division x / float(d) returns when both convert exactly
FDivInt(x, d) ==
    IF x = 0 THEN FZero
    ELSE LET a == Abs(x)
             \* 2^e <= a / d < 2^(e+1)
             up == IF a >= d THEN Log2(a \div d) ELSE 0
             dn == IF a >= d THEN 0
                   ELSE CHOOSE k \in 1..31 :
                          a * 2^k >= d /\ \A j \in 1..(k - 1) : a * 2^j < d
             num == a * 2^dn
             den == d * 2^up
             h == DivBits(num - den, den, 26, 1)
             l == DivBits(h.r, den, 26, 0)
             g == DivBits(l.r, den, 1, 0)
         IN  RoundNearestEven(x < 0, up - dn, h.q, l.q, g.q, g.r # 0)

\* The product below is not computed by the script: it is the inverse the
\* normalization is measured against.

\* the mantissa's bits, least significant first
MantissaBits(f) ==
    [i \in 1..53 |-> IF i <= 26 THEN (f.lo \div 2^(i - 1)) % 2
                     ELSE (f.hi \div 2^(i - 27)) % 2]

\* bits (least significant first) times c, plus carry
RECURSIVE MulBits(_, _, _, _)
MulBits(b, c, carry, out) ==
    IF b = <<>>
    THEN IF carry = 0 THEN out
         ELSE MulBits(b, c, carry \div 2, Append(out, carry % 2))
    ELSE LET t == Head(b) * c + carry
         IN  MulBits(Tail(b), c, t \div 2, Append(out, t % 2))

\* the number a bit sequence (least significant first) spells
RECURSIVE BitsVal(_)
BitsVal(b) == IF b = <<>> THEN 0 ELSE Head(b) + 2 * BitsVal(Tail(b))

\* the correctly rounded product f * c of a double and a positive integer
\* below 2^15 (float(c) is exact)
FMulInt(f, c) ==
    IF f.hi = 0 THEN FZero
    ELSE LET p == MulBits(MantissaBits(f), c, 0, <<>>)
             sh == Len(p) - 53
         IN  RoundNearestEven(f.neg, f.exp + sh,
                 BitsVal(SubSeq(p, sh + 27, Len(p))),
                 BitsVal(SubSeq(p, sh + 1, sh + 26)),
                 IF sh >= 1 THEN p[sh] ELSE 0,
                 \E i \in 1..(sh - 1) : p[i] = 1)

\* the doubles next to a nonzero f, away from zero and towards zero
FNextAway(f) ==
    IF f.lo + 1 < 2^26 THEN [f EXCEPT !.lo = f.lo + 1]
    ELSE IF f.hi + 1 < 2^27 THEN [f EXCEPT !.hi = f.hi + 1, !.lo = 0]
         ELSE [f EXCEPT !.exp = f.exp + 1, !.hi = 2^26, !.lo = 0]

FNextToZero(f) ==
    IF f.lo > 0 THEN [f EXCEPT !.lo = f.lo - 1]
    ELSE IF f.hi > 2^26 THEN [f EXCEPT !.hi = f.hi - 1, !.lo = 2^26 - 1]
         ELSE [f EXCEPT !.exp = f.exp - 1, !.hi = 2^27 - 1, !.lo = 2^26 - 1]


-----------------------------------------------------------------------------
(* The files the script is run on.  A line is written without its line      *)
(* terminator; FileLine appends it, as iterating over the file yields it.   *)

\* 'IN: 15000'
LN_IN_15000 == <<"I", "N", ":", " ", "1", "5", "0", "0", "0">>
\* 'IN: -15000'
LN_IN_NEG15000 == <<"I", "N", ":", " ", "-", "1", "5", "0", "0", "0">>
\* 'MID: 30000'
LN_MID_30000 == <<"M", "I", "D", ":", " ", "3", "0", "0", "0", "0">>
\* 'OUT: 0'
LN_OUT_0 == <<"O", "U", "T", ":", " ", "0">>
\* 'IN: 59'
LN_IN_59 == <<"I", "N", ":", " ", "5", "9">>
\* 'GARBAGE: 123'
LN_GARBAGE == <<"G", "A", "R", "B", "A", "G", "E", ":", " ", "1", "2", "3">>
\* ''
LN_BLANK == <<>>
\* 'IN:'
LN_IN_ONLY == <<"I", "N", ":">>
\* 'IN:5'
LN_IN_UNSPACED == <<"I", "N", ":", "5">>
\* '\t OUT: x\t7 \r'
LN_OUT_PADDED == <<"\t", " ", "O", "U", "T", ":", " ", "x", "\t", "7", " ", "\r">>
\* 'MID: 4x'
LN_MID_4X == <<"M", "I", "D", ":", " ", "4", "x">>
\* 'MID 8'
LN_MID_NOCOLON == <<"M", "I", "D", " ", "8">>
\* 'OUT: +2'
LN_OUT_PLUS2 == <<"O", "U", "T", ":", " ", "+", "2">>
\* 'MID: IN: -1'
LN_MID_IN == <<"M", "I", "D", ":", " ", "I", "N", ":", " ", "-", "1">>
\* 'XIN: 3'
LN_XIN == <<"X", "I", "N", ":", " ", "3">>

LineSet ==
    { LN_IN_15000,
      LN_IN_NEG15000,
      LN_MID_30000,
      LN_OUT_0,
      LN_IN_59,
      LN_GARBAGE,
      LN_BLANK,
      LN_IN_ONLY,
      LN_IN_UNSPACED,
      LN_OUT_PADDED,
      LN_MID_4X,
      LN_MID_NOCOLON,
      LN_OUT_PLUS2,
      LN_MID_IN,
      LN_XIN }

\* the samples of the lines of a block, repeated in this order
SampleTokens ==
    << <<"1", "5", "0", "0", "0">>,
       <<"-", "1", "5", "0", "0", "0">>,
       <<"5", "9">>,
       <<"3", "0", "0", "0", "0">>,
       <<"0">>,
       <<"-", "7">>,
       <<"1", "8", "7", "5">> >>

SampleToken(i) == SampleTokens[((i - 1) % Len(SampleTokens)) + 1]

\* A file: arbitrary lines, then nin lines IN: v, nmid lines MID: v and nout
\* lines OUT: v
NumLines(f) == Len(f.lines) + f.nin + f.nmid + f.nout

FileLine(f, i) ==
    LET j == i - Len(f.lines)
    IN  (IF j <= 0 THEN f.lines[i]
         ELSE IF j <= f.nin THEN P_IN \o <<" ">> \o SampleToken(j)
         ELSE IF j <= f.nin + f.nmid THEN P_MID \o <<" ">> \o SampleToken(j - f.nin)
         ELSE P_OUT \o <<" ">> \o SampleToken(j - f.nin - f.nmid))
        \o <<"\n">>

LineFile(ls) == [lines |-> ls, nin |-> 0, nmid |-> 0, nout |-> 0]
BlockFile(a, b, c) == [lines |-> <<>>, nin |-> a, nmid |-> b, nout |-> c]

\* every file of at most MaxLines lines of LineSet
SmallFiles == { LineFile(ls) : ls \in UNION { [1..n -> LineSet] : n \in 0..MaxLines } }

\* the scenarios of a full log: all three streams, a line to ignore in between
ScenarioFiles ==
    { LineFile(<<LN_IN_15000, LN_IN_NEG15000, LN_MID_30000, LN_OUT_0>>),
      LineFile(<<LN_MID_30000, LN_GARBAGE, LN_IN_59, LN_OUT_PADDED, LN_IN_15000,
                 LN_BLANK, LN_MID_IN, LN_OUT_PLUS2>>) }

BlockFiles == { BlockFile(a, b, c) : a, b, c \in 0..MaxRun }

\* logs one shorter than, as long as and one longer than the time plot shows
LongFiles ==
    { BlockFile(TIME_LEN_IN + d, TIME_LEN_MID + d, TIME_LEN_OUT + d) : d \in {-1, 0, 1} }

Files == SmallFiles \cup ScenarioFiles \cup BlockFiles \cup LongFiles

-----------------------------------------------------------------------------
(* The run *)

Msg(kind, nums) == [kind |-> kind, filename |-> FILENAME, nums |-> nums]

Init ==
    /\ fileExists \in BOOLEAN
    /\ file \in (IF fileExists THEN Files ELSE { LineFile(<<>>) })
    /\ pc = "start"
    /\ idx = 1
    /\ data_in = <<>> /\ data_mid = <<>> /\ data_out = <<>>
    /\ s_in_raw = <<>> /\ s_mid_raw = <<>> /\ s_out_raw = <<>>
    /\ s_in = <<>> /\ s_mid = <<>> /\ s_out = <<>>
    /\ stdout = <<>>
    /\ calls = <<>>
    /\ timeArgs = <<>>
    /\ freqArgs = <<>>
    /\ fft = <<>>
    /\ ref_level = <<>>
    /\ plotted = <<>>
    /\ error = "none"
    /\ exitStatus = -1

\* an exception nothing catches: the traceback, then exit status 1
Raise(exc) ==
    /\ pc' = "crashed"
    /\ error' = exc
    /\ exitStatus' = 1

\* parse_file up to the for loop: print, open; FileNotFoundError is caught, and
\* exit() with no argument raises SystemExit(None), exit status 0
parse_file_open ==
    /\ pc = "start"
    /\ IF fileExists
       THEN /\ stdout' = Append(stdout, Msg("Reading", <<>>))
            /\ pc' = "loop"
            /\ exitStatus' = exitStatus
       ELSE /\ stdout' = stdout \o <<Msg("Reading", <<>>), Msg("Error: Could not find", <<>>)>>
            /\ pc' = "exited"
            /\ exitStatus' = 0
    /\ UNCHANGED << fileExists, file, idx, data_in, data_mid, data_out,
                    s_in_raw, s_mid_raw, s_out_raw, s_in, s_mid, s_out, calls,
                    timeArgs, freqArgs, fft, ref_level, plotted, error >>

\* p occurs somewhere in s
Contains(s, p) == \E i \in 1..(Len(s) - Len(p) + 1) : SubSeq(s, i, i + Len(p) - 1) = p

\* a chain that tests `prefix in line` where the script tests startswith
ClassifyAnywhere(line) ==
    IF Contains(line, P_IN) THEN "in"
    ELSE IF Contains(line, P_MID) THEN "mid"
    ELSE IF Contains(line, P_OUT) THEN "out"
    ELSE "none"

\* the if / elif chain on the stripped line
Classify(line) ==
    IF StartsWith(line, P_IN) THEN "in"
    ELSE IF StartsWith(line, P_MID) THEN "mid"
    ELSE IF StartsWith(line, P_OUT) THEN "out"
    ELSE "none"

\* a parser that skips a line whose token is no integer
ParseLineSkipping(line) ==
    IF Classify(line) # "none" /\ IsIntLiteral(LastToken(line))
    THEN [stream |-> Classify(line), raises |-> FALSE, val |-> ParseInt(LastToken(line))]
    ELSE [stream |-> "none", raises |-> FALSE, val |-> 0]

\* what a stripped line does: nothing, or val = int(line.split()[-1]) for one
\* of the lists, which raises ValueError unless the token is an integer
ParseLine(line) ==
    LET st == Classify(line)
    IN  IF st = "none" THEN [stream |-> "none", raises |-> FALSE, val |-> 0]
        ELSE IF IsIntLiteral(LastToken(line))
             THEN [stream |-> st, raises |-> FALSE, val |-> ParseInt(LastToken(line))]
             ELSE [stream |-> st, raises |-> TRUE, val |-> 0]

\* lst.insert(0, val)
PrependVal(lst, val) == <<val>> \o lst

\* lst.append(val)
AppendVal(lst, val) == Append(lst, val)

\* one iteration of the for loop
parse_file_line ==
    /\ pc = "loop"
    /\ idx <= NumLines(file)
    /\ LET r == ParseLine(Strip(FileLine(file, idx)))
       IN  IF r.raises
           THEN /\ Raise("ValueError")
                /\ UNCHANGED << idx, data_in, data_mid, data_out >>
           ELSE /\ data_in' = IF r.stream = "in" THEN AppendVal(data_in, r.val) ELSE data_in
                /\ data_mid' = IF r.stream = "mid" THEN AppendVal(data_mid, r.val) ELSE data_mid
                /\ data_out' = IF r.stream = "out" THEN AppendVal(data_out, r.val) ELSE data_out
                /\ idx' = idx + 1
                /\ UNCHANGED << pc, error, exitStatus >>
    /\ UNCHANGED << fileExists, file, s_in_raw, s_mid_raw, s_out_raw, s_in, s_mid,
                    s_out, stdout, calls, timeArgs, freqArgs, fft, ref_level,
                    plotted >>

\* np.array(lst): the same integers (all within int64), in the same order
NpArray(lst) == [i \in 1..Len(lst) |-> lst[i]]

\* the end of the file: return the three arrays
parse_file_return ==
    /\ pc = "loop"
    /\ idx > NumLines(file)
    /\ s_in_raw' = NpArray(data_in)
    /\ s_mid_raw' = NpArray(data_mid)
    /\ s_out_raw' = NpArray(data_out)
    /\ pc' = "report"
    /\ UNCHANGED << fileExists, file, idx, data_in, data_mid, data_out, s_in, s_mid,
                    s_out, stdout, calls, timeArgs, freqArgs, fft, ref_level,
                    plotted, error, exitStatus >>

\* a gate on any of the three streams
ShouldPlotAnyStream(raw_in, raw_mid, raw_out) ==
    Len(raw_in) + Len(raw_mid) + Len(raw_out) > 0

\* if len(s_in_raw) > 0
ShouldPlot(raw_in, raw_mid, raw_out) == Len(raw_in) > 0

\* print the counts; without input samples the script ends here
report_counts ==
    /\ pc = "report"
    /\ stdout' = Append(stdout,
           Msg("Samples Read", <<Len(s_in_raw), Len(s_mid_raw), Len(s_out_raw)>>))
    /\ calls' = Append(calls, "report")
    /\ IF ShouldPlot(s_in_raw, s_mid_raw, s_out_raw)
       THEN pc' = "normalize" /\ exitStatus' = exitStatus
       ELSE pc' = "done" /\ exitStatus' = 0
    /\ UNCHANGED << fileExists, file, idx, data_in, data_mid, data_out,
                    s_in_raw, s_mid_raw, s_out_raw, s_in, s_mid, s_out,
                    timeArgs, freqArgs, fft, ref_level, plotted, error >>

\* raw // NORM_FACTOR, the floor division
NormalizedFloorDiv(raw) == [i \in 1..Len(raw) |-> FromInt(raw[i] \div NORM_FACTOR)]

\* raw / NORM_FACTOR, element by element
Normalized(raw) == [i \in 1..Len(raw) |-> FDivInt(raw[i], NORM_FACTOR)]

normalize ==
    /\ pc = "normalize"
    /\ stdout' = Append(stdout, Msg("Normalizing", <<NORM_FACTOR>>))
    /\ s_in' = Normalized(s_in_raw)
    /\ s_mid' = Normalized(s_mid_raw)
    /\ s_out' = Normalized(s_out_raw)
    /\ calls' = Append(calls, "normalize")
    /\ pc' = "time"
    /\ UNCHANGED << fileExists, file, idx, data_in, data_mid, data_out,
                    s_in_raw, s_mid_raw, s_out_raw, timeArgs, freqArgs, fft,
                    ref_level, plotted, error, exitStatus >>

\* a[:k], k >= 0
Slice(a, k) == SubSeq(a, 1, Min(k, Len(a)))

\* a call of plot_time_domain that passes the streams unsliced
TimeDomainArgsFull(a, b, c) == << a, b, c >>

\* what the call of plot_time_domain is given
TimeDomainArgs(a, b, c) ==
    << Slice(a, TIME_LEN_IN), Slice(b, TIME_LEN_MID), Slice(c, TIME_LEN_OUT) >>

\* what the call of plot_frequency_domain is given
FrequencyDomainArgs(a, b, c) == << a, b, c >>

\* plot_time_domain draws what it is given, whatever the lengths
plot_time_domain ==
    /\ pc = "time"
    /\ timeArgs' = TimeDomainArgs(s_in, s_mid, s_out)
    /\ calls' = Append(calls, "plot_time_domain")
    /\ pc' = "freq"
    /\ UNCHANGED << fileExists, file, idx, data_in, data_mid, data_out,
                    s_in_raw, s_mid_raw, s_out_raw, s_in, s_mid, s_out, stdout,
                    freqArgs, fft, ref_level, plotted, error, exitStatus >>

\* the call of plot_frequency_domain
plot_frequency_domain_call ==
    /\ pc = "freq"
    /\ freqArgs' = FrequencyDomainArgs(s_in, s_mid, s_out)
    /\ pc' = "fft"
    /\ UNCHANGED << fileExists, file, idx, data_in, data_mid, data_out,
                    s_in_raw, s_mid_raw, s_out_raw, s_in, s_mid, s_out, stdout,
                    calls, timeArgs, fft, ref_level, plotted, error, exitStatus >>

\* The magnitude of an FFT bin in dB is not computed: it is any of these
\* levels.  The spectrum of a real signal is symmetric (bin k and bin n - k
\* have one magnitude), and the levels of the first MaxBins bins repeat.
DbLevels == {-40, -6}
FreeBins(n) == Min(n \div 2 + 1, MaxBins)
LevelChoices(n) == [0..(FreeBins(n) - 1) -> DbLevels]
BinLevel(lv, n, k) == lv[Min(k, n - k) % FreeBins(n)]

\* np.fft.fftfreq(n, 1/fs): bin k * fs / n, the second half negative
FftFreq(n, fs) ==
    [i \in 1..n |-> [bin |-> IF i - 1 <= (n - 1) \div 2 THEN i - 1 ELSE i - 1 - n,
                     fs |-> fs, n |-> n]]

\* half of the bins, rounded up
half_n_ceil(sig) == (Len(sig) + 1) \div 2

half_n(sig) == Len(sig) \div 2

\* what get_fft_db returns for a signal of at least one sample, the levels of
\* its FFT being lv
get_fft_db(sig, fs, lv) ==
    LET n == Len(sig)
        mag_all == [i \in 1..n |-> BinLevel(lv, n, i - 1)]
        fft_freq == FftFreq(n, fs)
    IN  [freq |-> Slice(fft_freq, half_n(sig)), mag |-> Slice(mag_all, half_n(sig))]

StreamRate == << FS_IN, FS_MID, FS_OUT >>

\* one of the three calls of get_fft_db, in the order in, mid, out; np.fft.fft
\* raises ValueError on an empty array
get_fft_db_call ==
    /\ pc = "fft"
    /\ Len(fft) < 3
    /\ LET k == Len(fft) + 1
           sig == freqArgs[k]
       IN  IF Len(sig) = 0
           THEN /\ Raise("ValueError")
                /\ UNCHANGED fft
           ELSE /\ \E lv \in LevelChoices(Len(sig)) :
                      fft' = Append(fft, get_fft_db(sig, StreamRate[k], lv))
                /\ UNCHANGED << pc, error, exitStatus >>
    /\ UNCHANGED << fileExists, file, idx, data_in, data_mid, data_out,
                    s_in_raw, s_mid_raw, s_out_raw, s_in, s_mid, s_out, stdout,
                    calls, timeArgs, freqArgs, ref_level, plotted >>

\* np.max of a non-empty array
SeqMax(a) == CHOOSE m \in { a[i] : i \in 1..Len(a) } : \A i \in 1..Len(a) : a[i] <= m

\* the reference level the frequency figure subtracts from a spectrum
RefLevel(mag_in, mag_mid, mag_out) == SeqMax(mag_in)

\* mag - ref_level
Relative(mag, ref) == [i \in 1..Len(mag) |-> mag[i] - ref]

\* the rest of plot_frequency_domain: np.max raises ValueError on an empty
\* array; the three spectra are drawn relative to the reference level
plot_frequency_domain_draw ==
    /\ pc = "fft"
    /\ Len(fft) = 3
    /\ IF Len(fft[1].mag) = 0
       THEN /\ Raise("ValueError")
            /\ UNCHANGED << ref_level, plotted, calls >>
       ELSE LET ref == RefLevel(fft[1].mag, fft[2].mag, fft[3].mag)
            IN  /\ ref_level' = <<ref>>
                /\ plotted' = << Relative(fft[1].mag, ref), Relative(fft[2].mag, ref),
                                 Relative(fft[3].mag, ref) >>
                /\ calls' = Append(calls, "plot_frequency_domain")
                /\ pc' = "show"
                /\ UNCHANGED << error, exitStatus >>
    /\ UNCHANGED << fileExists, file, idx, data_in, data_mid, data_out,
                    s_in_raw, s_mid_raw, s_out_raw, s_in, s_mid, s_out, stdout,
                    timeArgs, freqArgs, fft >>

\* plt.show(), and the script ends
show ==
    /\ pc = "show"
    /\ calls' = Append(calls, "show")
    /\ pc' = "done"
    /\ exitStatus' = 0
    /\ UNCHANGED << fileExists, file, idx, data_in, data_mid, data_out,
                    s_in_raw, s_mid_raw, s_out_raw, s_in, s_mid, s_out, stdout,
                    timeArgs, freqArgs, fft, ref_level, plotted, error >>

Next ==
    \/ parse_file_open
    \/ parse_file_line
    \/ parse_file_return
    \/ report_counts
    \/ normalize
    \/ plot_time_domain
    \/ plot_frequency_domain_call
    \/ get_fft_db_call
    \/ plot_frequency_domain_draw
    \/ show

Spec == Init /\ [][Next]_vars

-----------------------------------------------------------------------------
(* The properties.  What a line of the file says is stated here on the     *)
(* characters of the line, apart from the parser's own definitions.        *)

\* the line without the whitespace around it
Trimmed(line) ==
    LET keep == { i \in 1..Len(line) : ~IsSpace(line[i]) }
    IN  IF keep = {} THEN <<>>
        ELSE SubSeq(line, CHOOSE i \in keep : \A j \in keep : i <= j,
                          CHOOSE i \in keep : \A j \in keep : j <= i)

\* the line, trimmed, starts with the literal p
HasLiteralPrefix(line, p) ==
    LET t == Trimmed(line)
    IN  Len(t) >= Len(p) /\ \A i \in 1..Len(p) : t[i] = p[i]

Prefixes == { P_IN, P_MID, P_OUT }
Recognized(line) == \E p \in Prefixes : HasLiteralPrefix(line, p)

\* the last whitespace-separated token of a line that has one
FinalToken(line) ==
    LET t == Trimmed(line)
        gaps == { i \in 1..Len(t) : IsSpace(t[i]) }
        from == IF gaps = {} THEN 1 ELSE (CHOOSE i \in gaps : \A j \in gaps : j <= i) + 1
    IN  SubSeq(t, from, Len(t))

EndsInInteger(line) == IsIntLiteral(FinalToken(line))
Malformed(line) == Recognized(line) /\ ~EndsInInteger(line)
WellFormed(f) == \A i \in 1..NumLines(f) : ~Malformed(FileLine(f, i))

\* the numbers of the lines of f that carry prefix p, and the integers that
\* end them, in file order
PrefixLines(f, p) == { i \in 1..NumLines(f) : HasLiteralPrefix(FileLine(f, i), p) }

\* the nth element of arr is the integer that ends the nth such line
ParsedAs(arr, f, p) ==
    LET at == PrefixLines(f, p)
    IN  /\ Len(arr) = Cardinality(at)
        /\ \A i \in at :
              arr[Cardinality({ j \in at : j <= i })] = ParseInt(FinalToken(FileLine(f, i)))

Printed(kind) == \E i \in 1..Len(stdout) : stdout[i].kind = kind
Called(step) == \E i \in 1..Len(calls) : calls[i] = step
Ended == pc \in {"done", "exited", "crashed"}
\* parse_file has returned its three arrays
AfterParse == pc \in {"report", "normalize", "time", "freq", "fft", "show", "done"}
                 \/ (pc = "crashed" /\ calls # <<>>)
NoPlotting ==
    /\ timeArgs = <<>> /\ freqArgs = <<>> /\ fft = <<>> /\ plotted = <<>>
    /\ ~Called("plot_time_domain") /\ ~Called("plot_frequency_domain") /\ ~Called("show")

\* C1: on a well-formed file, each array parse_file returns is, in file order,
\* the last-token integers of exactly the lines that carry its prefix: as many
\* elements as there are such lines, the nth from the nth such line.
C1_ParseCountsAndOrder ==
    (pc = "report" /\ WellFormed(file)) =>
        /\ ParsedAs(s_in_raw, file, P_IN)
        /\ ParsedAs(s_mid_raw, file, P_MID)
        /\ ParsedAs(s_out_raw, file, P_OUT)

\* a well-formed file with lines of all three streams and a line of none,
\* two different input samples among them, has been parsed
C1_Witness ==
    /\ pc = "report"
    /\ WellFormed(file)
    /\ Len(s_in_raw) >= 2 /\ s_in_raw[1] # s_in_raw[2]
    /\ Len(s_mid_raw) >= 1 /\ Len(s_out_raw) >= 1
    /\ \E i \in 1..NumLines(file) : ~Recognized(FileLine(file, i))

\* C2: if the file does not exist, the process prints an error line naming the
\* file and ends at once with a non-zero exit status, before the counts are
\* reported and before any plotting call.
C2_MissingFileAbnormalExit ==
    (~fileExists /\ pc # "start") =>
        /\ pc = "exited"
        /\ \E i \in 1..Len(stdout) :
              stdout[i].kind = "Error: Could not find" /\ stdout[i].filename = FILENAME
        /\ exitStatus # 0
        /\ ~Printed("Samples Read")
        /\ calls = <<>>
        /\ NoPlotting

FullRun == <<"report", "normalize", "plot_time_domain", "plot_frequency_domain", "show">>

\* C3: whenever the parsed input stream is non-empty, whatever the lengths of
\* the three streams, the run reports the counts, normalizes, builds the
\* time-domain figure, builds the frequency-domain figure and presents both,
\* in this order: it reaches the presentation and ends without an error.
C3_NonEmptyInputPresentsFigures ==
    (AfterParse /\ Len(s_in_raw) > 0) =>
        /\ \E n \in 0..Len(FullRun) : calls = SubSeq(FullRun, 1, n)
        /\ error = "none"
        /\ Ended => (pc = "done" /\ calls = FullRun /\ exitStatus = 0)

\* C4: whenever the parsed input stream is empty, nothing is normalized, no
\* plotting call is made and no figure is presented, whatever the other two
\* streams hold; the process prints the three counts and exits normally.
C4_EmptyInputSkipsPlotting ==
    (AfterParse /\ Len(s_in_raw) = 0) =>
        /\ pc \in {"report", "done"}
        /\ s_in = <<>> /\ s_mid = <<>> /\ s_out = <<>>
        /\ ~Printed("Normalizing") /\ ~Called("normalize")
        /\ NoPlotting
        /\ error = "none"
        /\ pc = "done" =>
              /\ stdout[Len(stdout)] =
                    Msg("Samples Read", <<0, Len(s_mid_raw), Len(s_out_raw)>>)
              /\ calls = <<"report">>
              /\ exitStatus = 0

\* the run has ended on an empty input stream with intermediate and output
\* samples present
C4_Witness ==
    /\ pc = "done"
    /\ Len(s_in_raw) = 0 /\ Len(s_mid_raw) > 0 /\ Len(s_out_raw) > 0

Total == Len(data_in) + Len(data_mid) + Len(data_out)

\* C5: a line that starts, once stripped, with none of IN:, MID:, OUT: leaves
\* the three sequences unchanged and raises no error, whatever it holds; and
\* every line adds to at most one of the three sequences.
C5_UnprefixedLineIgnored ==
    [][ (pc = "loop" /\ idx <= NumLines(file)) =>
          /\ ~Recognized(FileLine(file, idx)) =>
                /\ data_in' = data_in /\ data_mid' = data_mid /\ data_out' = data_out
                /\ pc' = "loop" /\ error' = "none" /\ idx' = idx + 1
          /\ Len(data_in') + Len(data_mid') + Len(data_out') <= Total + 1
          /\ Cardinality({ k \in 1..3 :
                << data_in, data_mid, data_out >>[k] # << data_in', data_mid', data_out' >>[k] }) <= 1
      ]_vars

\* a line with no prefix that ends in an integer was read first, and the
\* loop goes on with nothing parsed
C5_Witness ==
    /\ pc = "loop" /\ idx = 2
    /\ ~Recognized(FileLine(file, 1)) /\ EndsInInteger(FileLine(file, 1))
    /\ Total = 0

\* C6: if a line with a recognized prefix ends in a token that is not a base-10
\* integer, parsing fails at that line: the failure is a ValueError nothing
\* catches, the process ends there, and nothing parsed so far is used: no
\* counts are reported and no plotting call is made.
C6_MalformedTokenIsFatal ==
    /\ [][ /\ (pc = "loop" /\ idx <= NumLines(file) /\ Malformed(FileLine(file, idx))) =>
                /\ pc' = "crashed" /\ error' = "ValueError" /\ exitStatus' = 1
                /\ stdout' = stdout /\ calls' = calls
          /\ pc # "crashed"
        ]_vars
    /\ [](pc = "crashed" /\ calls = <<>> =>
              /\ idx <= NumLines(file) /\ Malformed(FileLine(file, idx))
              /\ ~Printed("Samples Read")
              /\ s_in_raw = <<>> /\ s_mid_raw = <<>> /\ s_out_raw = <<>>
              /\ NoPlotting)

\* parsing failed on a malformed line after an earlier line was parsed
C6_Witness ==
    /\ pc = "crashed" /\ calls = <<>>
    /\ Total >= 1
    /\ Malformed(FileLine(file, idx))

FHalf == [neg |-> FALSE, exp |-> -1, hi |-> 2^26, lo |-> 0]
FOne == [neg |-> FALSE, exp |-> 0, hi |-> 2^26, lo |-> 0]

Scenario1 ==
    s_in_raw = <<15000, -15000>> /\ s_mid_raw = <<30000>> /\ s_out_raw = <<0>>

Scenario1Normalized ==
    /\ s_in = << FHalf, [FHalf EXCEPT !.neg = TRUE] >>
    /\ s_mid = << FOne >>
    /\ s_out = << FZero >>

Streams == << <<s_in_raw, s_in>>, <<s_mid_raw, s_mid>>, <<s_out_raw, s_out>> >>

\* C7 as claimed: normalization keeps length and order and, for every stream
\* and index, normalized[i] * 30000.0 equals raw[i].
C7_NormalizationExactInverse ==
    pc = "time" =>
        /\ \A k \in 1..3 :
              /\ Len(Streams[k][2]) = Len(Streams[k][1])
              /\ \A i \in 1..Len(Streams[k][1]) :
                    FMulInt(Streams[k][2][i], 30000) = FromInt(Streams[k][1][i])
        /\ Scenario1 => Scenario1Normalized

WithinOneUlp(p, x) ==
    IF x.hi = 0 THEN p = x ELSE p \in { x, FNextAway(x), FNextToZero(x) }

\* C7, amended: normalization keeps length and order and, for every stream and
\* index, normalized[i] * 30000.0 is raw[i] or one of the two doubles next to
\* raw[i], and is raw[i] exactly when raw[i] is a multiple of 1875; raw
\* in=[15000,-15000], mid=[30000], out=[0] gives in=[0.5,-0.5], mid=[1.0],
\* out=[0.0].
C7_NormalizationInverseWithinUlp ==
    pc = "time" =>
        /\ \A k \in 1..3 :
              /\ Len(Streams[k][2]) = Len(Streams[k][1])
              /\ \A i \in 1..Len(Streams[k][1]) :
                    LET x == Streams[k][1][i]
                        p == FMulInt(Streams[k][2][i], 30000)
                    IN  /\ WithinOneUlp(p, FromInt(x))
                        /\ x % 1875 = 0 => p = FromInt(x)
        /\ Scenario1 => Scenario1Normalized

\* the streams of the example have been normalized
C7_Witness == pc = "time" /\ Scenario1 /\ Scenario1Normalized

\* C8: in the frequency-domain plot, for every non-empty input stream, one
\* reference level, the maximum dB value of the input's half-spectrum, is
\* subtracted from the dB values of all three streams, so that the maximum of
\* the input's relative spectrum is exactly 0.
C8_SharedReferenceLevel ==
    (AfterParse /\ Ended /\ Len(s_in_raw) > 0 /\ Len(s_mid_raw) > 0 /\ Len(s_out_raw) > 0) =>
        /\ Len(fft) = 3 /\ Len(ref_level) = 1 /\ Len(plotted) = 3
        /\ \A i \in 1..Len(fft[1].mag) : fft[1].mag[i] <= ref_level[1]
        /\ \E i \in 1..Len(fft[1].mag) : fft[1].mag[i] = ref_level[1]
        /\ \A k \in 1..3 :
              /\ Len(plotted[k]) = Len(fft[k].mag)
              /\ \A i \in 1..Len(plotted[k]) : plotted[k][i] = fft[k].mag[i] - ref_level[1]
        /\ \A i \in 1..Len(plotted[1]) : plotted[1][i] <= 0
        /\ \E i \in 1..Len(plotted[1]) : plotted[1][i] = 0

\* C9: for every signal given to get_fft_db, the frequency bins and the
\* magnitudes it returns have one length, len(signal) // 2, the first half of
\* the FFT's bins, never more than the signal's length.
C9_HalfSpectrumLengths ==
    \A k \in 1..Len(fft) :
        LET n == Len(freqArgs[k])
        IN  /\ Len(fft[k].freq) = Len(fft[k].mag)
            /\ Len(fft[k].mag) = n \div 2
            /\ Len(fft[k].mag) <= n
            /\ \A i \in 1..Len(fft[k].freq) : fft[k].freq[i].bin = i - 1

\* get_fft_db has returned for three signals, the first of an odd length
C9_Witness ==
    /\ Len(fft) = 3
    /\ Len(freqArgs[1]) % 2 = 1 /\ Len(fft[1].mag) >= 1
    /\ Len(fft[2].mag) >= 2
    /\ Len(fft[2].mag) # Len(fft[3].mag)

IsPrefixOfLength(a, b, n) == Len(a) = n /\ \A i \in 1..n : a[i] = b[i]

\* C10: the time-domain plot receives the first min(len, 200) input samples,
\* min(len, 400) intermediate samples and min(len, 150) output samples of the
\* normalized streams, in order; the frequency-domain plot receives the
\* normalized streams in full.
C10_TimePrefixFrequencyFull ==
    /\ timeArgs # <<>> =>
          /\ IsPrefixOfLength(timeArgs[1], s_in, Min(Len(s_in_raw), 200))
          /\ IsPrefixOfLength(timeArgs[2], s_mid, Min(Len(s_mid_raw), 400))
          /\ IsPrefixOfLength(timeArgs[3], s_out, Min(Len(s_out_raw), 150))
    /\ freqArgs # <<>> =>
          /\ IsPrefixOfLength(freqArgs[1], s_in, Len(s_in_raw))
          /\ IsPrefixOfLength(freqArgs[2], s_mid, Len(s_mid_raw))
          /\ IsPrefixOfLength(freqArgs[3], s_out, Len(s_out_raw))

\* both plots were called on streams longer than the time plot shows
C10_Witness ==
    /\ freqArgs # <<>>
    /\ Len(s_in) > 200 /\ Len(s_mid) > 400 /\ Len(s_out) > 150
    /\ Len(timeArgs[1]) = 200 /\ Len(timeArgs[2]) = 400 /\ Len(timeArgs[3]) = 150
    /\ Len(freqArgs[1]) > 200 /\ Len(freqArgs[2]) > 400 /\ Len(freqArgs[3]) > 150

====
